---- MODULE Spec2Model ----
(***************************************************************************)
(* Model of ef-nuget-models-loader.py: a script that polls version-check  *)
(* endpoints, resolves the most recent model version, and downloads the    *)
(* NuGet package for it unless the version is already in the download      *)
(* history file.                                                           *)
(*                                                                         *)
(* Strings are sequences of one-character strings, so that slicing,        *)
(* splitting, parsing and formatting are computed as the code computes     *)
(* them.                                                                   *)
(***************************************************************************)
EXTENDS Integers, Sequences, FiniteSets, TLC

VARIABLES
    pc,                 \* position of the running script in main()
    run,                \* number of runs of the script started so far
    ledgerExists,       \* os.path.exists(DOWNLOADED_MODELS)
    ledger,             \* content of the DOWNLOADED_MODELS file
    model_versions,     \* get_mv_from_urls: ordered dict url_name -> version
    url_name_list,      \* get_mv_from_urls: names of the polled endpoints
    responses,          \* what each version-check endpoint answered in this run
    dh_model_version,   \* main: the resolved version
    return_code,        \* download_nuurls_with_model_package: return_code
    requests_sent,      \* package requests issued in this run
    outcomes,           \* what each package endpoint answered in this run
    artifacts,          \* files present in END_FOLDER
    log,                \* incidents printed in this run
    start,              \* the files as they were when this run started, and
                        \* the version the run before failed to fetch
    appended,           \* versions written by update_downloaded_mv_in_file
    found,              \* History Store exercise: last membership answer
    versions_in,        \* Version Comparator exercise: report under test
    senior,             \* Version Comparator exercise: resolved version
    zero_trace          \* Version Comparator exercise: repeated normalize

vars == <<pc, run, ledgerExists, ledger, model_versions, url_name_list,
          responses, dh_model_version, return_code, requests_sent, outcomes, artifacts,
          log, start, appended, found, versions_in, senior, zero_trace>>

mainVars == <<pc, run, model_versions, url_name_list, responses, dh_model_version,
              return_code, requests_sent, outcomes, artifacts, log, start>>

fileVars == <<ledgerExists, ledger, appended>>

cmpVars == <<found, versions_in, senior, zero_trace>>

(***************************************************************************)
(* Bounds                                                                  *)
(***************************************************************************)
NumVersionUrls == 2     \* entries of urls_with_model_version
NumPackageUrls == 2     \* entries of urls_with_model_package
MaxRuns == 2            \* runs of the script
MaxVerLen == 5          \* characters of a version in the comparator exercise
MaxReportSize == 2      \* entries of a report in the comparator exercise
MaxHistVerLen == 3      \* characters of a version in the history exercise
MaxLedgerLines == 2     \* appends in the history exercise

(***************************************************************************)
(* Strings                                                                 *)
(***************************************************************************)
DigitChars == <<"0", "1", "2", "3", "4", "5", "6", "7", "8", "9">>

VerChars == {"0", "1", "."}

Str(n) == UNION {[1..k -> VerChars] : k \in 1..n}

IsDigit(c) == \E i \in 1..10 : DigitChars[i] = c

\* a dotted numeric sequence: [0-9]+(\.[0-9]+)*
IsVersionString(s) ==
    /\ Len(s) >= 1
    /\ \A i \in 1..Len(s) : IsDigit(s[i]) \/ s[i] = "."
    /\ s[1] # "." /\ s[Len(s)] # "."
    /\ \A i \in 1..(Len(s) - 1) : ~(s[i] = "." /\ s[i + 1] = ".")

VersionStrings(n) == {s \in Str(n) : IsVersionString(s)}

CmpVersions == VersionStrings(MaxVerLen)


\* s[-k:]
Tail_(s, k) == IF Len(s) <= k THEN s ELSE SubSeq(s, Len(s) - k + 1, Len(s))

\* s[:-k]
DropLast(s, k) == IF Len(s) <= k THEN << >> ELSE SubSeq(s, 1, Len(s) - k)

delete_closing_zero_all(model_version) ==
    LET RECURSIVE strip(_)
        strip(s) == IF Tail_(s, 2) = <<".", "0">> THEN strip(DropLast(s, 2)) ELSE s
    IN  strip(model_version)

delete_closing_zero(model_version) ==
    IF Tail_(model_version, 2) = <<".", "0">>
    THEN DropLast(model_version, 2)
    ELSE model_version

add_closing_slash(url_path) ==
    IF Tail_(url_path, 1) # <<"/">> THEN url_path \o <<"/">> ELSE url_path

(***************************************************************************)
(* packaging.version: parse, str and < on release-only versions            *)
(***************************************************************************)
DigitVal(c) == CHOOSE i \in 0..9 : DigitChars[i + 1] = c

RECURSIVE SegToInt(_)
SegToInt(seg) ==
    IF seg = << >> THEN 0
    ELSE 10 * SegToInt(DropLast(seg, 1)) + DigitVal(seg[Len(seg)])

RECURSIVE IntToStr(_)
IntToStr(n) ==
    IF n < 10 THEN <<DigitChars[n + 1]>>
    ELSE IntToStr(n \div 10) \o <<DigitChars[(n % 10) + 1]>>

\* s.split(".")
RECURSIVE SplitDots(_)
SplitDots(s) ==
    IF \A i \in 1..Len(s) : s[i] # "." THEN <<s>>
    ELSE LET d == CHOOSE i \in 1..Len(s) :
                      s[i] = "." /\ \A j \in 1..(i - 1) : s[j] # "."
         IN  <<SubSeq(s, 1, d - 1)>> \o SplitDots(SubSeq(s, d + 1, Len(s)))

\* Version(s).release
parse(s) == [i \in 1..Len(SplitDots(s)) |-> SegToInt(SplitDots(s)[i])]

\* str(Version)
RECURSIVE VersionToStr(_)
VersionToStr(release) ==
    IF Len(release) = 1 THEN IntToStr(release[1])
    ELSE VersionToStr(DropLast(release, 1)) \o <<".">> \o IntToStr(release[Len(release)])

\* Version._key: the release without its trailing zeros
RECURSIVE CmpKey(_)
CmpKey(release) ==
    IF release # << >> /\ release[Len(release)] = 0
    THEN CmpKey(DropLast(release, 1))
    ELSE release

\* tuple comparison a < b
RECURSIVE TupleLess(_, _)
TupleLess(a, b) ==
    IF b = << >> THEN FALSE
    ELSE IF a = << >> THEN TRUE
    ELSE IF a[1] # b[1] THEN a[1] < b[1]
    ELSE TupleLess(Tail(a), Tail(b))

VersionLess(a, b) == TupleLess(CmpKey(a), CmpKey(b))

\* model_versions is an ordered dict: a sequence of [url_name, version]
RECURSIVE SeniorFold(_, _)
SeniorFold(senior_ver, entries) ==
    IF entries = << >> THEN senior_ver
    ELSE SeniorFold(IF VersionLess(senior_ver, parse(entries[1].version))
                    THEN parse(entries[1].version)
                    ELSE senior_ver,
                    Tail(entries))

determine_senior_version(entries) ==
    VersionToStr(SeniorFold(parse(<<"0", ".", "0">>), entries))

\* the versions main hands to the History Store: results of str(Version)
HistVersions == {VersionToStr(parse(v)) : v \in VersionStrings(MaxHistVerLen)}

(***************************************************************************)
(* History Store: the DOWNLOADED_MODELS file                               *)
(***************************************************************************)
\* iterating a text file: the lines, each with its newline
RECURSIVE Lines(_)
Lines(content) ==
    IF content = << >> THEN << >>
    ELSE IF \A i \in 1..Len(content) : content[i] # "\n" THEN <<content>>
    ELSE LET d == CHOOSE i \in 1..Len(content) :
                      content[i] = "\n" /\ \A j \in 1..(i - 1) : content[j] # "\n"
         IN  <<SubSeq(content, 1, d)>> \o Lines(SubSeq(content, d + 1, Len(content)))

has_model_already_been_downloaded_numeric(content, model_version) ==
    LET lines == Lines(content)
    IN  \E i \in 1..Len(lines) :
           /\ Len(lines[i]) > 2
           /\ CmpKey(parse(DropLast(lines[i], 2))) = CmpKey(parse(model_version))

has_model_already_been_downloaded_nospace(content, model_version) ==
    LET string_pattern == model_version \o <<"\n">>
        lines == Lines(content)
    IN  \E i \in 1..Len(lines) : lines[i] = string_pattern

has_model_already_been_downloaded(content, model_version) ==
    LET string_pattern == model_version \o <<" ", "\n">>
        lines == Lines(content)
    IN  \E i \in 1..Len(lines) : lines[i] = string_pattern

update_downloaded_mv_in_file_nospace(content, model_version) ==
    LET string_pattern == model_version \o <<"\n">>
    IN  content \o string_pattern

update_downloaded_mv_in_file(content, model_version) ==
    LET string_pattern == model_version \o <<" ", "\n">>
    IN  content \o string_pattern

create_empty_file == << >>

Range(seq) == {seq[i] : i \in 1..Len(seq)}

(***************************************************************************)
(* Configuration: MAIN_CONFIG                                              *)
(***************************************************************************)
AllVersionUrlNames == <<"dh1", "dh2", "addin", "dh4">>

AllPackageUrlNames == <<"prgt", "prgt2", "prgt3", "prgt4">>

\* url-paths of the package endpoints, with and without a closing slash
PackageUrlPath(i) ==
    IF i % 2 = 1 THEN <<"u", DigitChars[i + 1]>> ELSE <<"u", DigitChars[i + 1], "/">>

NoAnswer == [version |-> << >>, answer |-> FALSE]

\* the state of a script that is not running
Idle ==
    /\ pc = "idle"
    /\ run = 0
    /\ model_versions = << >>
    /\ url_name_list = << >>
    /\ responses = << >>
    /\ dh_model_version = << >>
    /\ return_code = 0
    /\ requests_sent = << >>
    /\ outcomes = << >>
    /\ artifacts = {}
    /\ log = << >>
    /\ start = [exists |-> FALSE, content |-> << >>, artifacts |-> {},
                failed |-> << >>]

NoFile ==
    /\ ledgerExists = FALSE
    /\ ledger = << >>
    /\ appended = << >>

NoExercise ==
    /\ found = NoAnswer
    /\ versions_in = << >>
    /\ senior = << >>
    /\ zero_trace = << >>

(***************************************************************************)
(* Version Comparator exercised on its own                                 *)
(***************************************************************************)
\* ordered dicts with at most n entries, keys in config order
Reports(n) ==
    UNION {{r \in [1..k -> [url_name : {AllVersionUrlNames[i] : i \in 1..n},
                            version : CmpVersions]] :
               \A i \in 1..k : r[i].url_name = AllVersionUrlNames[i]}
           : k \in 0..n}

CmpInit ==
    /\ Idle /\ NoFile
    /\ found = NoAnswer
    /\ versions_in \in Reports(MaxReportSize)
    /\ senior = << >>
    /\ zero_trace = << >>

CmpDetermine ==
    /\ senior = << >>
    /\ senior' = determine_senior_version(versions_in)
    /\ UNCHANGED <<mainVars, fileVars, found, versions_in, zero_trace>>

CmpNext == CmpDetermine

SpecComparator == CmpInit /\ [][CmpNext]_vars

ZeroInit ==
    /\ Idle /\ NoFile
    /\ found = NoAnswer
    /\ versions_in = << >>
    /\ senior = << >>
    /\ zero_trace \in {<<v>> : v \in CmpVersions}

ZeroNormalize ==
    /\ Len(zero_trace) < 3
    /\ zero_trace' = Append(zero_trace, delete_closing_zero(zero_trace[Len(zero_trace)]))
    /\ UNCHANGED <<mainVars, fileVars, found, versions_in, senior>>

ZeroNext == ZeroNormalize

SpecNormalize == ZeroInit /\ [][ZeroNext]_vars

(***************************************************************************)
(* History Store exercised on its own                                      *)
(***************************************************************************)
HsInit == Idle /\ NoFile /\ NoExercise

HsCreate ==
    /\ ~ledgerExists
    /\ ledgerExists' = TRUE
    /\ ledger' = create_empty_file
    /\ UNCHANGED <<mainVars, appended, cmpVars>>

HsAppend ==
    /\ found = NoAnswer
    /\ Len(appended) < MaxLedgerLines
    /\ \E v \in HistVersions :
          /\ ledgerExists' = TRUE
          /\ ledger' = update_downloaded_mv_in_file(ledger, v)
          /\ appended' = Append(appended, v)
    /\ UNCHANGED <<mainVars, cmpVars>>

\* one membership question about the ledger built so far
HsContains ==
    /\ found = NoAnswer
    /\ ledgerExists
    /\ \E v \in HistVersions :
          found' = [version |-> v,
                    answer |-> has_model_already_been_downloaded(ledger, v)]
    /\ UNCHANGED <<mainVars, fileVars, versions_in, senior, zero_trace>>

HsNext == HsCreate \/ HsAppend \/ HsContains

SpecHistory == HsInit /\ [][HsNext]_vars

(***************************************************************************)
(* The script: main() run repeatedly                                       *)
(***************************************************************************)
\* modelsVersion values that pass DH_SCHEMA
ReportedVersions ==
    { <<"1", ".", "0">>, <<"1", ".", "0", ".", "0">>, <<"1", ".", "1">> }

\* what a version-check endpoint can answer to requests.get: no answer, a
\* body that is not JSON, JSON that fails the schema, or JSON with a version
\* (the status code of the answer is never read)
VersionResponses ==
    [kind : {"neterr", "notjson", "invalid"}, version : {<< >>}]
    \cup [kind : {"valid"}, version : ReportedVersions]

\* what a package endpoint can answer to requests.get
PackageResponses == {"neterr", "httperror", "noheader", "ok"}

Incident(incident_name, names) == [incident |-> incident_name, about |-> names]

Init ==
    /\ Idle
    /\ NoExercise
    /\ ledgerExists \in BOOLEAN
    /\ ledger = << >>
    /\ appended = << >>

\* python ef-nuget-models-loader.py
StartRun ==
    /\ pc \in {"idle", "done", "crashed"}
    /\ run < MaxRuns
    /\ run' = run + 1
    /\ pc' = "poll"
    /\ model_versions' = << >>
    /\ url_name_list' = << >>
    /\ responses' = << >>
    /\ dh_model_version' = << >>
    /\ return_code' = 0
    /\ requests_sent' = << >>
    /\ outcomes' = << >>
    /\ log' = << >>
    /\ start' = [exists |-> ledgerExists, content |-> ledger, artifacts |-> artifacts,
                 failed |-> IF \E i \in 1..Len(outcomes) : outcomes[i] # "ok"
                            THEN dh_model_version ELSE << >>]
    /\ UNCHANGED <<artifacts, fileVars, cmpVars>>

\* get_mv_from_urls: one iteration of the loop over urls_with_model_version
PollEndpoint ==
    /\ pc = "poll"
    /\ Len(url_name_list) < NumVersionUrls
    /\ LET url_name == AllVersionUrlNames[Len(url_name_list) + 1]
           last == Len(url_name_list) + 1 = NumVersionUrls
       IN  /\ url_name_list' = Append(url_name_list, url_name)
           /\ \E api_response \in VersionResponses :
              /\ responses' = Append(responses, api_response)
              /\ CASE api_response.kind = "neterr" ->
                        /\ pc' = "crashed"
                        /\ UNCHANGED <<model_versions, log>>
                   [] api_response.kind = "notjson" ->
                        /\ pc' = IF last THEN "polled" ELSE "poll"
                        /\ log' = Append(log, Incident("Warning 1", <<url_name>>))
                        /\ UNCHANGED model_versions
                   [] api_response.kind = "invalid" ->
                        /\ pc' = IF last THEN "polled" ELSE "poll"
                        /\ log' = Append(log, Incident("Warning 0", <<url_name>>))
                        /\ UNCHANGED model_versions
                   [] api_response.kind = "valid" ->
                        /\ pc' = IF last THEN "polled" ELSE "poll"
                        /\ model_versions' =
                              Append(model_versions,
                                     [url_name |-> url_name,
                                      version |-> delete_closing_zero(api_response.version)])
                        /\ log' = Append(log, Incident("Info 0", <<url_name>>))
    /\ UNCHANGED <<run, dh_model_version, return_code, requests_sent, outcomes,
                   artifacts, start, fileVars, cmpVars>>

\* main: the else branch of "if models"
NoVersion ==
    /\ pc = "polled"
    /\ model_versions = << >>
    /\ log' = log \o <<Incident("Error 0", url_name_list), Incident("Disaster 0", << >>)>>
    /\ pc' = "done"
    /\ UNCHANGED <<run, model_versions, url_name_list, responses, dh_model_version, return_code,
                   requests_sent, outcomes, artifacts, start, fileVars, cmpVars>>

ResolveUnguarded ==
    /\ pc = "polled"
    /\ dh_model_version' = determine_senior_version(model_versions)
    /\ pc' = "init"
    /\ UNCHANGED <<run, model_versions, url_name_list, responses, return_code,
                   requests_sent, outcomes, artifacts, log, start, fileVars, cmpVars>>

\* main: dh_model_version = determine_senior_version(models)
Resolve ==
    /\ pc = "polled"
    /\ model_versions # << >>
    /\ dh_model_version' = determine_senior_version(model_versions)
    /\ pc' = "init"
    /\ UNCHANGED <<run, model_versions, url_name_list, responses, return_code,
                   requests_sent, outcomes, artifacts, log, start, fileVars, cmpVars>>

InitLedgerSkipped ==
    /\ pc = "init"
    /\ pc' = "check"
    /\ UNCHANGED <<run, model_versions, url_name_list, responses, dh_model_version, return_code,
                   requests_sent, outcomes, artifacts, log, start, fileVars, cmpVars>>

InitLedgerAlways ==
    /\ pc = "init"
    /\ ledgerExists' = TRUE
    /\ ledger' = create_empty_file
    /\ pc' = "check"
    /\ UNCHANGED <<run, model_versions, url_name_list, responses, dh_model_version, return_code,
                   requests_sent, outcomes, artifacts, log, start, appended, cmpVars>>

\* main: create the history file when it does not exist
InitLedger ==
    /\ pc = "init"
    /\ IF ~ledgerExists
       THEN ledgerExists' = TRUE /\ ledger' = create_empty_file
       ELSE UNCHANGED <<ledgerExists, ledger>>
    /\ pc' = "check"
    /\ UNCHANGED <<run, model_versions, url_name_list, responses, dh_model_version, return_code,
                   requests_sent, outcomes, artifacts, log, start, appended, cmpVars>>

CheckHistoryIgnored ==
    /\ pc = "check"
    /\ pc' = "fetch"
    /\ UNCHANGED <<run, model_versions, url_name_list, responses, dh_model_version, return_code,
                   requests_sent, outcomes, artifacts, log, start, fileVars, cmpVars>>

\* main: if not has_model_already_been_downloaded(...)
CheckHistory ==
    /\ pc = "check"
    /\ pc' = IF has_model_already_been_downloaded(ledger, dh_model_version)
             THEN "done" ELSE "fetch"
    /\ UNCHANGED <<run, model_versions, url_name_list, responses, dh_model_version, return_code,
                   requests_sent, outcomes, artifacts, log, start, fileVars, cmpVars>>

FetchEndpointRollback ==
    /\ pc = "fetch"
    /\ Len(requests_sent) < NumPackageUrls
    /\ LET i == Len(requests_sent) + 1
           url_name == AllPackageUrlNames[i]
           url_path == add_closing_slash(PackageUrlPath(i)) \o dh_model_version
           last == i = NumPackageUrls
       IN  /\ requests_sent' = Append(requests_sent, [url_name |-> url_name, url_path |-> url_path])
           /\ \E r \in PackageResponses :
                 /\ outcomes' = Append(outcomes, r)
                 /\ CASE r = "neterr" ->
                           /\ pc' = "crashed"
                           /\ UNCHANGED <<return_code, artifacts, log>>
                      [] r = "httperror" ->
                           /\ pc' = IF last THEN "record" ELSE "fetch"
                           /\ return_code' = 1
                           /\ log' = Append(log, Incident("Error 1", <<url_name>>))
                           /\ artifacts' = start.artifacts
                      [] r = "noheader" ->
                           /\ pc' = "crashed"
                           /\ UNCHANGED <<return_code, artifacts, log>>
                      [] r = "ok" ->
                           /\ pc' = IF last THEN "record" ELSE "fetch"
                           /\ artifacts' = artifacts \cup
                                 {[url_name |-> url_name, version |-> dh_model_version]}
                           /\ log' = Append(log, Incident("Info 1", <<url_name>>))
                           /\ UNCHANGED return_code
    /\ UNCHANGED <<run, model_versions, url_name_list, responses, dh_model_version, start,
                   fileVars, cmpVars>>

\* download_nuurls_with_model_package: one iteration of the loop over
\* urls_with_model_package
FetchEndpoint ==
    /\ pc = "fetch"
    /\ Len(requests_sent) < NumPackageUrls
    /\ LET i == Len(requests_sent) + 1
           url_name == AllPackageUrlNames[i]
           url_path == add_closing_slash(PackageUrlPath(i)) \o dh_model_version
           last == i = NumPackageUrls
       IN  /\ requests_sent' = Append(requests_sent, [url_name |-> url_name, url_path |-> url_path])
           /\ \E r \in PackageResponses :
                 /\ outcomes' = Append(outcomes, r)
                 /\ CASE r = "neterr" ->
                           /\ pc' = "crashed"
                           /\ UNCHANGED <<return_code, artifacts, log>>
                      [] r = "httperror" ->
                           /\ pc' = IF last THEN "record" ELSE "fetch"
                           /\ return_code' = 1
                           /\ log' = Append(log, Incident("Error 1", <<url_name>>))
                           /\ UNCHANGED artifacts
                      [] r = "noheader" ->
                           /\ pc' = "crashed"
                           /\ UNCHANGED <<return_code, artifacts, log>>
                      [] r = "ok" ->
                           /\ pc' = IF last THEN "record" ELSE "fetch"
                           /\ artifacts' = artifacts \cup
                                 {[url_name |-> url_name, version |-> dh_model_version]}
                           /\ log' = Append(log, Incident("Info 1", <<url_name>>))
                           /\ UNCHANGED return_code
    /\ UNCHANGED <<run, model_versions, url_name_list, responses, dh_model_version, start,
                   fileVars, cmpVars>>

RecordOnFailure ==
    /\ pc = "record"
    /\ IF return_code # 0
       THEN /\ ledgerExists' = TRUE
            /\ ledger' = update_downloaded_mv_in_file(ledger, dh_model_version)
            /\ appended' = Append(appended, dh_model_version)
       ELSE UNCHANGED fileVars
    /\ pc' = "done"
    /\ UNCHANGED <<run, model_versions, url_name_list, responses, dh_model_version, return_code,
                   requests_sent, outcomes, artifacts, log, start, cmpVars>>

RecordUnconditional ==
    /\ pc = "record"
    /\ ledgerExists' = TRUE
    /\ ledger' = update_downloaded_mv_in_file(ledger, dh_model_version)
    /\ appended' = Append(appended, dh_model_version)
    /\ pc' = "done"
    /\ UNCHANGED <<run, model_versions, url_name_list, responses, dh_model_version, return_code,
                   requests_sent, outcomes, artifacts, log, start, cmpVars>>

\* main: if download_code == 0: update_downloaded_mv_in_file(...)
Record ==
    /\ pc = "record"
    /\ IF return_code = 0
       THEN /\ ledgerExists' = TRUE
            /\ ledger' = update_downloaded_mv_in_file(ledger, dh_model_version)
            /\ appended' = Append(appended, dh_model_version)
       ELSE UNCHANGED fileVars
    /\ pc' = "done"
    /\ UNCHANGED <<run, model_versions, url_name_list, responses, dh_model_version, return_code,
                   requests_sent, outcomes, artifacts, log, start, cmpVars>>

Next ==
    \/ StartRun
    \/ PollEndpoint
    \/ NoVersion
    \/ Resolve
    \/ InitLedger
    \/ CheckHistory
    \/ FetchEndpoint
    \/ Record

Spec == Init /\ [][Next]_vars

(***************************************************************************)
(* Properties of a run                                                     *)
(***************************************************************************)
EndsInDotZero(v) == Len(v) >= 2 /\ v[Len(v) - 1] = "." /\ v[Len(v)] = "0"

EndsInDotZeroDotZero(v) ==
    Len(v) >= 4 /\ v[Len(v) - 3] = "." /\ v[Len(v) - 2] = "0"
                /\ v[Len(v) - 1] = "." /\ v[Len(v)] = "0"

LedgerLine(model_version) == model_version \o <<" ", "\n">>

AllFetched ==
    /\ Len(outcomes) = NumPackageUrls
    /\ \A i \in 1..Len(outcomes) : outcomes[i] = "ok"

\* C1: in every run the ledger differs from the ledger the run started with
\* only by one appended line for the resolved version, and only when every
\* package endpoint was fetched successfully in that run; once a package
\* endpoint has answered with a non-2xx status the ledger stays as it was
C1_AppendOnlyAfterAllFetched ==
    /\ ledger # start.content =>
          /\ AllFetched
          /\ ledger = start.content \o LedgerLine(dh_model_version)
    /\ (\E i \in 1..Len(outcomes) : outcomes[i] = "httperror") =>
          ledger = start.content

C1_Witness ==
    /\ pc = "done"
    /\ \E i \in 1..Len(outcomes) : outcomes[i] = "ok"
    /\ \E i \in 1..Len(outcomes) : outcomes[i] = "httperror"
    /\ Len(outcomes) = NumPackageUrls
    /\ ledgerExists
    /\ ledger = start.content

\* C2: starting from an absent or empty ledger, no line occurs twice in the
\* ledger
C2_NoDuplicateLines ==
    LET lines == Lines(ledger)
    IN  \A i, j \in 1..Len(lines) : i # j => lines[i] # lines[j]

C2_Witness ==
    /\ run >= 2
    /\ pc = "done"
    /\ Len(Lines(ledger)) >= 1
    /\ dh_model_version # << >>
    /\ has_model_already_been_downloaded(ledger, dh_model_version)
    /\ requests_sent = << >>

\* C3: a run whose resolved version is already in the ledger sends no
\* package request, writes no artifact and leaves the ledger as it was
C3_AlreadyDownloadedIsNoOp ==
    (dh_model_version # << >>
       /\ has_model_already_been_downloaded(start.content, dh_model_version)) =>
        /\ requests_sent = << >>
        /\ outcomes = << >>
        /\ artifacts = start.artifacts
        /\ ledgerExists = start.exists
        /\ ledger = start.content

C3_Witness ==
    /\ pc = "done"
    /\ dh_model_version # << >>
    /\ has_model_already_been_downloaded(start.content, dh_model_version)
    /\ start.artifacts # {}

\* C4: once every version-check endpoint has been polled and none gave a
\* usable version, the run sends no package request and the ledger file is
\* neither created nor written
C4_EmptyReportTouchesNothing ==
    (/\ Len(responses) = NumVersionUrls
     /\ pc \notin {"poll", "crashed"}
     /\ model_versions = << >>) =>
        /\ pc \in {"polled", "done"}
        /\ dh_model_version = << >>
        /\ requests_sent = << >>
        /\ artifacts = start.artifacts
        /\ ledgerExists = start.exists
        /\ ledger = start.content

C4_Witness ==
    /\ pc = "done"
    /\ Len(responses) = NumVersionUrls
    /\ model_versions = << >>
    /\ ~ledgerExists
    /\ Len(log) = NumVersionUrls + 2

\* C5: once the fetch has begun, the run ends only after every package
\* endpoint was attempted, with return_code 0 exactly when every endpoint
\* succeeded and return_code 1 when some endpoint answered non-2xx
C5_FetcherAttemptsAllAndReturns ==
    (requests_sent # << >> /\ pc \in {"record", "done", "crashed"}) =>
        /\ pc # "crashed"
        /\ Len(requests_sent) = NumPackageUrls
        /\ (return_code = 0 <=> AllFetched)
        /\ (\E i \in 1..Len(outcomes) : outcomes[i] = "httperror") => return_code = 1

\* the report get_mv_from_urls must return for the answers received
RECURSIVE ExpectedReport(_)
ExpectedReport(answers) ==
    IF answers = << >> THEN << >>
    ELSE LET n == Len(answers)
             before == ExpectedReport(SubSeq(answers, 1, n - 1))
         IN  IF answers[n].kind = "valid"
             THEN Append(before, [url_name |-> AllVersionUrlNames[n],
                                  version |-> IF EndsInDotZero(answers[n].version)
                                              THEN SubSeq(answers[n].version, 1,
                                                          Len(answers[n].version) - 2)
                                              ELSE answers[n].version])
             ELSE before

\* C6: whatever the endpoints answer, the poll of a run ends with every
\* configured version-check endpoint polled once, the report holding exactly
\* the endpoints that answered valid JSON, each with its normalized version,
\* and the name list holding every configured endpoint
C6_PollerPollsEveryEndpoint ==
    (run > 0 /\ pc # "poll") =>
        /\ Len(responses) = NumVersionUrls
        /\ url_name_list = [i \in 1..NumVersionUrls |-> AllVersionUrlNames[i]]
        /\ model_versions = ExpectedReport(responses)

\* C10: a run does not crash on a network error, a version-check body that
\* is not JSON, or a non-2xx status: a crashed run has met a response
\* without content-disposition header
C10_NoCrashUnderNormalFailures ==
    pc = "crashed" => \E i \in 1..Len(outcomes) : outcomes[i] = "noheader"

\* component i of a release, a missing component counting as zero
Component(release, i) == IF i <= Len(release) THEN release[i] ELSE 0

\* component-wise numeric comparison a <= b
NumericLeq(a, b) ==
    LET n == IF Len(a) < Len(b) THEN Len(b) ELSE Len(a)
    IN  \/ \A i \in 1..n : Component(a, i) = Component(b, i)
        \/ \E k \in 1..n :
              /\ \A j \in 1..(k - 1) : Component(a, j) = Component(b, j)
              /\ Component(a, k) < Component(b, k)

\* C11: a package endpoint that answers 2xx without content-disposition
\* header counts as a failed fetch of that endpoint: the run goes on without
\* crashing, return_code is 1 and the ledger stays as it was
C11_MissingHeaderIsFetchFailure ==
    (\E i \in 1..Len(outcomes) : outcomes[i] = "noheader") =>
        /\ pc # "crashed"
        /\ return_code = 1
        /\ ledger = start.content

FetchStarted == pc = "fetch" \/ requests_sent # << >>

C13_StepsInOrder ==
    [][/\ (responses' # responses /\ responses' # << >>) =>
             (dh_model_version = << >> /\ requests_sent = << >>)
       /\ (dh_model_version' # dh_model_version /\ dh_model_version' # << >>) =>
             (Len(responses) = NumVersionUrls /\ requests_sent = << >>)
       /\ (ledgerExists' /\ ~ledgerExists) =>
             (dh_model_version # << >> /\ requests_sent = << >>)
       /\ pc' = "check" => ledgerExists'
       /\ (requests_sent' # requests_sent /\ requests_sent' # << >>) =>
             /\ Len(responses) = NumVersionUrls
             /\ dh_model_version # << >>
             /\ ledgerExists
             /\ \A i \in 1..Len(Lines(ledger)) :
                   Lines(ledger)[i] # LedgerLine(dh_model_version)
       /\ ledger' # ledger =>
             (Len(outcomes) = NumPackageUrls /\ Len(requests_sent) = NumPackageUrls)
      ]_vars

C13_Witness ==
    /\ pc = "done"
    /\ ~start.exists
    /\ ledgerExists
    /\ Len(responses) = NumVersionUrls
    /\ Len(requests_sent) = NumPackageUrls
    /\ ledger = LedgerLine(dh_model_version)

IsPrefix(a, b) == Len(a) <= Len(b) /\ SubSeq(b, 1, Len(a)) = a

\* C14: during a run the ledger the run started with stays a prefix of the
\* ledger, at most one line is added, and a ledger file that existed is
\* neither removed nor emptied
C14_LedgerAppendOnly ==
    /\ IsPrefix(start.content, ledger)
    /\ Len(Lines(ledger)) <= Len(Lines(start.content)) + 1
    /\ start.exists => ledgerExists

C14_Witness ==
    /\ pc = "done"
    /\ start.exists
    /\ start.content # << >>
    /\ ledger # start.content
    /\ Len(Lines(ledger)) = Len(Lines(start.content)) + 1

\* the version recorded on a ledger line
LineVersion(line) == SubSeq(line, 1, Len(line) - 2)

\* the ledger has no line for model_version but has a line for a version
\* that is numerically equal to it
HasNumericTwinOnly(content, model_version) ==
    LET lines == Lines(content)
    IN  /\ \A i \in 1..Len(lines) : lines[i] # LedgerLine(model_version)
        /\ \E i \in 1..Len(lines) :
              /\ NumericLeq(parse(LineVersion(lines[i])), parse(model_version))
              /\ NumericLeq(parse(model_version), parse(LineVersion(lines[i])))

\* C15: a resolved version that is numerically equal to a recorded one but
\* written differently is not taken as downloaded: the run starts the
\* fetch, ends normally only after every package endpoint was requested,
\* and when all succeeded the version is recorded on a line of its own
C15_NumericTwinIsFetchedAgain ==
    (dh_model_version # << >> /\ pc \notin {"init", "check"}
       /\ HasNumericTwinOnly(start.content, dh_model_version)) =>
        /\ FetchStarted
        /\ pc = "done" => Len(requests_sent) = NumPackageUrls
        /\ (pc = "done" /\ AllFetched) =>
              ledger = start.content \o LedgerLine(dh_model_version)

C15_Witness ==
    /\ pc = "done"
    /\ dh_model_version # << >>
    /\ HasNumericTwinOnly(start.content, dh_model_version)
    /\ Len(Lines(ledger)) = 2
    /\ Lines(ledger)[2] = LedgerLine(dh_model_version)

Delivered(i, model_version) ==
    [url_name |-> AllPackageUrlNames[i], version |-> model_version] \in artifacts

\* C16: nothing is rolled back: files that were in the output folder stay,
\* every package endpoint that succeeded in this run has its artifact there
\* whatever the other endpoints did, and a version is in the ledger only
\* when all package endpoints delivered their artifact for it in the run
\* that recorded it
C16_NoRollbackOfArtifacts ==
    /\ start.artifacts \subseteq artifacts
    /\ \A i \in 1..Len(outcomes) :
          outcomes[i] = "ok" => Delivered(i, dh_model_version)
    /\ \A k \in 1..Len(appended) :
          \A i \in 1..NumPackageUrls : Delivered(i, appended[k])
    /\ ledger # start.content =>
          (AllFetched /\ \A i \in 1..NumPackageUrls : Delivered(i, dh_model_version))

C16_Witness ==
    /\ pc = "done"
    /\ return_code = 1
    /\ \E i \in 1..Len(outcomes) : outcomes[i] = "ok" /\ Delivered(i, dh_model_version)
    /\ ~has_model_already_been_downloaded(ledger, dh_model_version)
    /\ ledger = start.content

(***************************************************************************)
(* Version Comparator properties                                           *)
(***************************************************************************)
\* C7: for every non-empty report the resolved version is one of the
\* version strings of the report and is greater than or equal to every
\* reported version under component-wise numeric comparison; only an empty
\* report yields the sentinel
C7_SeniorIsReportedMaximum ==
    (senior # << >> /\ versions_in # << >>) =>
        /\ \E i \in 1..Len(versions_in) : versions_in[i].version = senior
        /\ \A i \in 1..Len(versions_in) :
              NumericLeq(parse(versions_in[i].version), parse(senior))

StripsOnce ==
    Len(zero_trace) >= 2 =>
        IF EndsInDotZero(zero_trace[1])
        THEN zero_trace[2] \o <<".", "0">> = zero_trace[1]
        ELSE zero_trace[2] = zero_trace[1]

\* C8 as stated: normalize removes one trailing .0, leaves any other version
\* unchanged, and normalizing twice gives the same as normalizing once
C8_NormalizeIdempotent ==
    /\ StripsOnce
    /\ Len(zero_trace) >= 3 => zero_trace[3] = zero_trace[2]

\* C8 amended: normalize removes one trailing .0, leaves any other version
\* unchanged, and normalizing twice gives the same as normalizing once
\* exactly for the versions that do not end in .0.0
C8_NormalizeOnce ==
    /\ StripsOnce
    /\ Len(zero_trace) >= 3 =>
          ((zero_trace[3] = zero_trace[2]) <=> ~EndsInDotZeroDotZero(zero_trace[1]))

C8_Witness ==
    /\ Len(zero_trace) = 3
    /\ EndsInDotZero(zero_trace[1])
    /\ ~EndsInDotZeroDotZero(zero_trace[1])
    /\ zero_trace[2] # zero_trace[1]
    /\ zero_trace[3] = zero_trace[2]

(***************************************************************************)
(* History Store properties                                                *)
(***************************************************************************)
\* C9: whatever sequence of appends built the ledger, a version is reported
\* as downloaded exactly when it is one of the appended versions
C9_ContainsIffAppended ==
    found # NoAnswer => (found.answer <=> found.version \in Range(appended))

C9_Witness ==
    /\ Len(appended) = 2
    /\ appended[1] # appended[2]
    /\ found.version = appended[1]
    /\ found.answer

====
